---- MODULE Spec2Model ----
(***************************************************************************)
(* The AI-quota-gated emotion analysis pipeline of the MoodMate backend:   *)
(* the quota manager (ensure_daily_reset, check_ai_quota,                  *)
(* increment_ai_calls), the classifier gateway (HFClient.analyze_emotion), *)
(* the advice and playlist tables, and the analyze_emotion view, run by    *)
(* concurrent requests of one user against one user_profiles row and the   *)
(* mood_logs table.                                                        *)
(*                                                                         *)
(* Spec runs the requests; PaySpec runs a request beside the payment       *)
(* webhook (Payment.process_success) and the profile endpoint's save of    *)
(* the user (save_user_profile); HookSpec runs the webhook's deliveries    *)
(* about one payment (intasend_webhook); FnSpec applies the pipeline's     *)
(* functions, each on its own, to their inputs.                            *)
(*                                                                         *)
(* Scores are integers: the upstream's in 1/10000, a result's in 1/1000.   *)
(* A date is a day number >= 1, an instant a clock tick >= 1; NULL is 0.   *)
(***************************************************************************)
EXTENDS Integers, Sequences, FiniteSets, TLC

\* ------------------------------------------------------------ bounds
MaxServed == 2      \* requests served in one behaviour
MaxNow    == 3      \* last clock tick
MaxLogs   == 1      \* requests that ask for a mood log row
MaxPayments  == 1   \* payments the webhook processes
MaxUserSaves == 1   \* saves of the user through the profile endpoint
MaxDeliveries == 3  \* webhook deliveries about one payment

\* The worker slots: two requests of the same user may be in flight at once.
Requests == {"r1", "r2"}

\* --------------------------------------------------- program constants
NULL == 0
FREE_DAILY_AI_CALLS    == 5
PREMIUM_DAILY_AI_CALLS == 200
MAX_TEXT_LEN           == 1000
PREMIUM_MONTHLY_DAYS   == 30    \* duration_days of the plan the payments buy

Min(a, b) == IF a < b THEN a ELSE b
Max(a, b) == IF a > b THEN a ELSE b

\* ------------------------------------------------------------- texts
(* The "text" field of the request body.  kind "absent": the key is        *)
(* missing; "number": a JSON value that is no string; "string": pad        *)
(* whitespace characters around core other characters.  The texts the      *)
(* requests send are the boundary cases of the validation: no text, no      *)
(* string, whitespace only, the longest valid text sent with one whitespace *)
(* character around it, and the shortest text that is too long.             *)
Text(kind, pad, core) == [kind |-> kind, pad |-> pad, core |-> core]
Texts ==
    { Text("absent", 0, 0), Text("number", 0, 0), Text("string", 2, 0),
      Text("string", 1, MAX_TEXT_LEN),
      Text("string", 0, MAX_TEXT_LEN + 1) }

\* len() of the text as sent
RawLen(t) == t.pad + t.core
\* len(text.strip())
StripLen(t) == t.core

Moods == {"none", "happy"}

\* MoodLog.MOOD_CHOICES: the values the mood column declares
MOOD_CHOICES ==
    { "happy", "sad", "anxious", "stressed", "calm", "excited", "angry",
      "confused", "energetic", "tired", "content", "frustrated" }

\* --------------------------------------------------------- classifier
\* Mutant of FALLBACK: the degraded flag is not set.
FallbackNotDegraded == [label |-> "neutral", score |-> 500, ai_unavailable |-> FALSE]

FALLBACK == [label |-> "neutral", score |-> 500, ai_unavailable |-> TRUE]

Obj(l, s) == [t |-> "obj", has_label |-> TRUE, has_score |-> TRUE,
              label |-> l, score |-> s]
NoScore(l) == [t |-> "obj", has_label |-> TRUE, has_score |-> FALSE,
               label |-> l, score |-> 0]
NoLabel(s) == [t |-> "obj", has_label |-> FALSE, has_score |-> TRUE,
               label |-> "", score |-> s]
Str == [t |-> "str", has_label |-> FALSE, has_score |-> FALSE,
        label |-> "", score |-> 0]
List(items) == [t |-> "list", items |-> items]
Dict == [t |-> "dict", items |-> <<>>]

\* What the upstream does with one POST.
Upstreams ==
    { [kind |-> "transport_error", body |-> Dict],
      [kind |-> "timeout", body |-> Dict],
      [kind |-> "http_error", body |-> Dict],
      [kind |-> "not_json", body |-> Dict],
      [kind |-> "json", body |-> Dict],
      [kind |-> "json", body |-> List(<<>>)],
      [kind |-> "json", body |-> List(<<List(<<>>)>>)],
      [kind |-> "json", body |-> List(<<NoScore("joy")>>)],
      [kind |-> "json", body |-> List(<<NoLabel(9000)>>)],
      [kind |-> "json", body |-> List(<<List(<<Obj("joy", 9500)>>)>>)],
      [kind |-> "json", body |-> List(<<Obj("fear", 1000), Obj("JOY", 9500)>>)] }

\* str.lower() on the labels the model uses
Lower(s) ==
    CASE s = "JOY" -> "joy"
      [] s = "Joy" -> "joy"
      [] s = "Sadness" -> "sadness"
      [] s = "SURPRISE" -> "surprise"
      [] s = "Gratitude" -> "gratitude"
      [] s = "ADMIRATION" -> "admiration"
      [] s = "Relief" -> "relief"
      [] s = "FEAR" -> "fear"
      [] s = "Disgust" -> "disgust"
      [] s = "ANGER" -> "anger"
      [] s = "Calm" -> "calm"
      [] s = "HAPPY" -> "happy"
      [] s = "Tired" -> "tired"
      [] s = "Neutral" -> "neutral"
      [] s = "XYZ" -> "xyz"
      [] OTHER -> s

\* Mutant of Round3: the fourth decimal is cut off.
Round3Floor(x) == x \div 10

\* round(x, 3) of a score given in 1/10000, as 1/1000
Round3(x) == (x + 5) \div 10

\* max(emotions, key=score): the first entry with the greatest score
RECURSIVE ArgMax(_, _, _)
ArgMax(es, i, best) ==
    IF i > Len(es) THEN best
    ELSE ArgMax(es, i + 1, IF es[i].score > es[best].score THEN i ELSE best)

TopEmotion(es) == es[ArgMax(es, 1, 1)]

\* The entries raise in max() or in the result's construction.
EntriesRaise(es) ==
    \/ Len(es) = 0
    \/ \E i \in 1..Len(es) : es[i].t # "obj" \/ ~es[i].has_score
    \/ ~TopEmotion(es).has_label

\* The body of the try block once response.json() has returned `result`.
ParseResult(result) ==
    IF result.t = "list" /\ Len(result.items) > 0
    THEN LET emotions == IF result.items[1].t = "list"
                         THEN result.items[1].items
                         ELSE result.items
         IN  IF EntriesRaise(emotions) THEN FALLBACK
             ELSE [label |-> Lower(TopEmotion(emotions).label),
                   score |-> Round3(TopEmotion(emotions).score),
                   ai_unavailable |-> FALSE]
    ELSE FALLBACK

(* The try block returns one of its fallback dictionaries: the payload is  *)
(* no non-empty list (line 86), or handling it raised (line 101).          *)
ParseFallsBack(result) ==
    \/ result.t # "list"
    \/ Len(result.items) = 0
    \/ EntriesRaise(IF result.items[1].t = "list" THEN result.items[1].items
                    ELSE result.items)

\* Mutant of HFCall: a failed attempt is tried once more.
HFCallRetriesOnce(token, up) ==
    IF ~token THEN [emotion |-> FALLBACK, posts |-> 0, fell_back |-> TRUE]
    ELSE IF up.kind # "json"
    THEN [emotion |-> FALLBACK, posts |-> 2, fell_back |-> TRUE]
    ELSE [emotion |-> ParseResult(up.body), posts |-> 1,
          fell_back |-> ParseFallsBack(up.body)]

\* Mutant of HFCall: the missing-token test is left out.
HFCallIgnoresToken(token, up) ==
    IF up.kind # "json"
    THEN [emotion |-> FALLBACK, posts |-> 1, fell_back |-> TRUE]
    ELSE [emotion |-> ParseResult(up.body), posts |-> 1,
          fell_back |-> ParseFallsBack(up.body)]

(* HFClient.analyze_emotion(text) with the token configured or not: the    *)
(* result, the number of outbound POSTs it took, and whether the result is *)
(* one of the fallback returns (lines 48, 86, 94, 101).                     *)
HFCall(token, up) ==
    IF ~token THEN [emotion |-> FALLBACK, posts |-> 0, fell_back |-> TRUE]
    ELSE IF up.kind # "json"
    THEN [emotion |-> FALLBACK, posts |-> 1, fell_back |-> TRUE]
    ELSE [emotion |-> ParseResult(up.body), posts |-> 1,
          fell_back |-> ParseFallsBack(up.body)]

\* ------------------------------------------------------------- advice
AdviceBuckets ==
    { "joy", "sadness", "anger", "fear", "surprise", "disgust", "anxious",
      "stressed", "calm", "excited", "tired", "content" }

\* Mutant of EmotionMapping: no label is remapped.
EmotionMappingIdentity(k) == k

\* emotion_mapping.get(emotion_key, emotion_key)
EmotionMapping(k) ==
    CASE k \in {"admiration", "amusement", "caring", "love", "optimism"} -> "joy"
      [] k \in {"approval", "gratitude", "pride"} -> "content"
      [] k \in {"curiosity", "desire", "excitement"} -> "excited"
      [] k \in {"disappointment", "grief", "remorse"} -> "sadness"
      [] k = "disapproval" -> "anger"
      [] k \in {"embarrassment", "nervousness", "confusion"} -> "anxious"
      [] k = "realization" -> "surprise"
      [] k = "relief" -> "calm"
      [] OTHER -> k

(* generate_advice: the text is the template of the bucket, or the generic *)
(* one, followed by the disclaimer sentence.                               *)
GenerateAdvice(emotion_label) ==
    LET advice_key == EmotionMapping(Lower(emotion_label))
    IN  [template |-> IF advice_key \in AdviceBuckets THEN advice_key ELSE "generic",
         tail |-> "disclaimer"]

\* ---------------------------------------------------------- playlists
PlaylistMoods ==
    { "happy", "sad", "anxious", "stressed", "calm", "excited", "angry",
      "energetic", "tired", "content" }

MoodPlaylists(k) ==
    CASE k = "happy"     -> <<"Feel Good Hits", "Happy Pop">>
      [] k = "sad"       -> <<"Sad Songs", "Melancholy Indie">>
      [] k = "anxious"   -> <<"Calm & Peaceful", "Focus Flow">>
      [] k = "stressed"  -> <<"Stress Relief", "Ambient Relaxation">>
      [] k = "calm"      -> <<"Peaceful Piano", "Nature Sounds">>
      [] k = "excited"   -> <<"Energy Boost", "Upbeat Pop">>
      [] k = "angry"     -> <<"Anger Management", "Calming Classical">>
      [] k = "energetic" -> <<"Workout Hits", "High Energy">>
      [] k = "tired"     -> <<"Gentle Acoustic", "Soft Rock">>
      [] k = "content"   -> <<"Chill Vibes", "Sunday Morning">>

\* Mutant of EmotionToMood: no label is mapped to a mood.
EmotionToMoodIdentity(k) == k

\* emotion_to_mood.get(mood_key, mood_key)
EmotionToMood(k) ==
    CASE k = "joy" -> "happy"
      [] k = "sadness" -> "sad"
      [] k = "fear" -> "anxious"
      [] k = "anger" -> "angry"
      [] k = "surprise" -> "excited"
      [] k = "disgust" -> "angry"
      [] OTHER -> k

GetRecommendations(mood) ==
    LET playlist_key == EmotionToMood(Lower(mood))
    IN  IF playlist_key \in PlaylistMoods THEN MoodPlaylists(playlist_key)
        ELSE MoodPlaylists("calm")

\* -------------------------------------------------------------- clock
TicksPerDay == 2
\* date.today() at instant t
DayOf(t) == ((t - 1) \div TicksPerDay) + 1

\* -------------------------------------------------------------- state
VARIABLES
    now,        \* the clock: timezone.now(), and through DayOf, date.today()
    hf_token,   \* settings.HUGGINGFACE_API_TOKEN is set
    profile,    \* the user's row of user_profiles
    mood_logs,  \* the rows of mood_logs, in creation order
    req,        \* per worker slot, the request it is running
    served,     \* requests started so far
    hist,       \* history: what the day has seen (read by no action)
    side,       \* the payment webhook and the profile endpoint (PUT /me)
    fn          \* a function of the program applied to an input on its own

vars == <<now, hf_token, profile, mood_logs, req, served, hist, side, fn>>

\* Mutant of IsPremiumActive: <= for <.
IsPremiumActiveInclusive(p, t) ==
    IF p.plan # "PREMIUM" THEN FALSE
    ELSE IF p.premium_expires_at = NULL THEN FALSE
    ELSE t <= p.premium_expires_at

\* UserProfile.is_premium_active of the row (or cached copy) p at instant t
IsPremiumActive(p, t) ==
    IF p.plan # "PREMIUM" THEN FALSE
    ELSE IF p.premium_expires_at = NULL THEN FALSE
    ELSE t < p.premium_expires_at

\* The ceiling check_ai_quota computes for p at instant t
MaxCallsOf(p, t) ==
    IF IsPremiumActive(p, t) THEN PREMIUM_DAILY_AI_CALLS ELSE FREE_DAILY_AI_CALLS

\* Mutant of NeedsReset: only a profile never reset before is reset.
NeedsResetNullOnly(p, today) == p.last_ai_calls_reset = NULL

\* Mutant of NeedsReset: <= for <.
NeedsResetInclusive(p, today) ==
    p.last_ai_calls_reset = NULL \/ p.last_ai_calls_reset <= today

\* UserProfile.remaining_ai_calls of the row p at instant t
RemainingAiCalls(p, t) == Max(0, MaxCallsOf(p, t) - p.daily_ai_calls)

\* ensure_daily_reset's condition on the cached profile p
NeedsReset(p, today) ==
    p.last_ai_calls_reset = NULL \/ p.last_ai_calls_reset < today

\* Mutant of EnsureDailyReset: the date of the reset is not set.
EnsureDailyResetCounterOnly(p, today) ==
    IF NeedsReset(p, today) THEN [p EXCEPT !.daily_ai_calls = 0] ELSE p

\* ensure_daily_reset on the profile p: the profile it leaves
EnsureDailyReset(p, today) ==
    IF NeedsReset(p, today)
    THEN [p EXCEPT !.daily_ai_calls = 0, !.last_ai_calls_reset = today]
    ELSE p

\* Mutant of QuotaExhausted: the counter is compared with twice the ceiling.
QuotaExhaustedAtDouble(calls, max_calls) == calls >= 2 * max_calls

\* Mutant of QuotaExhausted: > for >=.
QuotaExhaustedOffByOne(calls, max_calls) == calls > max_calls

\* check_ai_quota's rejection test
QuotaExhausted(calls, max_calls) == calls >= max_calls

\* Mutant of SaveFields: the whole cached row is written.
SaveAllFields(row, cached, fields) == cached

(* Model.save(update_fields=fields) of the cached instance over the row:    *)
(* one UPDATE that sets the named columns and no other.                    *)
SaveFields(row, cached, fields) ==
    [plan |-> IF "plan" \in fields THEN cached.plan ELSE row.plan,
     premium_expires_at |-> IF "premium_expires_at" \in fields
                            THEN cached.premium_expires_at
                            ELSE row.premium_expires_at,
     daily_ai_calls |-> IF "daily_ai_calls" \in fields
                        THEN cached.daily_ai_calls ELSE row.daily_ai_calls,
     last_ai_calls_reset |-> IF "last_ai_calls_reset" \in fields
                             THEN cached.last_ai_calls_reset
                             ELSE row.last_ai_calls_reset]

\* Model.save(): every column
AllFields == {"plan", "premium_expires_at", "daily_ai_calls", "last_ai_calls_reset"}

(* check_ai_quota(user) run at instant t with no other request of the user *)
(* in flight: the profile it leaves, the ceiling and the verdict.          *)
CheckAiQuota(p, t) ==
    LET p1 == EnsureDailyReset(p, DayOf(t))
        max_calls == MaxCallsOf(p1, t)
    IN  [profile |-> p1, max_calls |-> max_calls,
         has_quota |-> ~QuotaExhausted(p1.daily_ai_calls, max_calls)]

NoProfile == [plan |-> "FREE", premium_expires_at |-> NULL,
              daily_ai_calls |-> 0, last_ai_calls_reset |-> NULL]
NoEmotion == [label |-> "", score |-> 0, ai_unavailable |-> FALSE]
NoAdvice  == [template |-> "", tail |-> ""]
NoResp    == [status |-> 0, current_calls |-> 0, max_calls |-> 0, plan |-> "",
              label |-> "", score |-> 0, advice |-> NoAdvice, recs |-> <<>>,
              ai_unavailable |-> FALSE, mood_log_id |-> NULL]

(* A worker slot.  pc is the place in analyze_emotion; prof is the cached   *)
(* request.user.profile; checked says check_ai_quota has returned and       *)
(* has_quota what it returned.  The rest is history, read by no action:     *)
(* ev lists what the request did ("post", "classify", "increment",          *)
(* "create", and the two failures), seen is the counter the quota check     *)
(* read, inc_from and inc_to the row's counter before and after the         *)
(* increment, alone says no other request was in flight with this one,      *)
(* faulted that a database operation of it failed, after_fill says that it  *)
(* arrived on a day on which a request running alone had already raised     *)
(* the counter from one below its ceiling to the ceiling, fell_back that    *)
(* classify took one of its fallback paths, after_quota that it arrived on  *)
(* a day later than one on which a request got the 402 response (hist's     *)
(* quota_day is the day of the latest 402).  The date the request read on   *)
(* arrival is prof.last_ai_calls_reset: ensure_daily_reset leaves it there. *)
IdleReq ==
    [pc |-> "idle", text |-> Text("absent", 0, 0), mood |-> "none",
     persist |-> "absent", prof |-> NoProfile, max_calls |-> 0,
     checked |-> FALSE, has_quota |-> FALSE,
     emotion |-> NoEmotion, advice |-> NoAdvice, recs |-> <<>>,
     outcome |-> "none", resp |-> NoResp,
     ev |-> <<>>, seen |-> 0, alone |-> TRUE, inc_from |-> 0, inc_to |-> 0,
     faulted |-> FALSE, after_fill |-> FALSE, fell_back |-> FALSE,
     after_quota |-> FALSE]

InFlight(r) == req[r].pc \notin {"idle", "done"}

(* Delivering a response touches the worker's slot alone, so it is taken    *)
(* as the step that follows the request's end: nothing else moves between.  *)
NoneDone == \A o \in Requests : req[o].pc # "done"

(* The payment webhook and the profile endpoint: payments processed so far, *)
(* user saves so far, and the profile the post_save receiver has loaded;    *)
(* status is the status column of the payment the webhook deliveries are    *)
(* about, hooks the deliveries handled so far.  upgrades is history: the    *)
(* times process_success has saved the upgraded profile.                    *)
NoSide == [payments |-> 0, saves |-> 0, pc |-> "idle", prof |-> NoProfile,
           status |-> "PENDING", hooks |-> 0, upgrades |-> 0]

\* No function is being applied.
NoFn == [op |-> "none", done |-> FALSE, arg |-> 0, out |-> 0]

Row(plan, expires, calls, last_reset) ==
    [plan |-> plan, premium_expires_at |-> expires,
     daily_ai_calls |-> calls, last_ai_calls_reset |-> last_reset]

(* The rows the user has when the first modelled request arrives: a new     *)
(* account, a free user one call below the ceiling, a premium user one call *)
(* below the ceiling, and a premium user whose plan expires at tick 2 and   *)
(* who has used the free ceiling's calls.  Each with the day's history      *)
(* that leads to it: as many accepted analyses as the counter says.         *)
InitRows ==
    { Row("FREE", NULL, 0, NULL),
      Row("FREE", NULL, FREE_DAILY_AI_CALLS - 1, DayOf(1)),
      Row("PREMIUM", MaxNow + 1, PREMIUM_DAILY_AI_CALLS - 1, DayOf(1)),
      Row("PREMIUM", 2, FREE_DAILY_AI_CALLS, DayOf(1)) }

Init ==
    /\ now = 1
    /\ hf_token \in BOOLEAN
    /\ profile \in InitRows
    /\ hist = [accepted |-> profile.daily_ai_calls, fixed |-> TRUE,
               expected |-> profile.daily_ai_calls,
               filled_day |-> 0, filled_m |-> 0, quota_day |-> 0]
    /\ mood_logs = <<>>
    /\ req = [r \in Requests |-> IdleReq]
    /\ served = 0
    /\ side = NoSide
    /\ fn = NoFn

\* ------------------------------------------------------ analyze_emotion
\* Mutant of ValidateText: the length test is left out.
ValidateTextNoLengthCheck(t) ==
    IF t.kind = "number" THEN "raise"
    ELSE IF StripLen(t) = 0 THEN "invalid"
    ELSE "ok"

(* text = request.data.get('text', '').strip() and the two tests on it:     *)
(* "raise" when the value has no strip(), "invalid" for a 400, else "ok".   *)
ValidateText(t) ==
    IF t.kind = "number" THEN "raise"
    ELSE IF StripLen(t) = 0 THEN "invalid"
    ELSE IF StripLen(t) > MAX_TEXT_LEN THEN "invalid"
    ELSE "ok"

\* Mutant of Gate: the text is read and validated before the quota check.
GateValidatesFirst(calls, max_calls, t) ==
    IF ValidateText(t) = "raise" THEN "raised"
    ELSE IF ValidateText(t) = "invalid" THEN "invalid"
    ELSE IF QuotaExhausted(calls, max_calls) THEN "quota"
    ELSE "accept"

(* The head of analyze_emotion, in its order: the quota check's verdict on  *)
(* the cached counter, then the reading and validation of the text.         *)
Gate(calls, max_calls, t) ==
    IF QuotaExhausted(calls, max_calls) THEN "quota"
    ELSE IF ValidateText(t) = "raise" THEN "raised"
    ELSE IF ValidateText(t) = "invalid" THEN "invalid"
    ELSE "accept"

(* request.data.get('persist', False): the key is absent, a JSON boolean,   *)
(* or a non-empty string (a form field, or a JSON string, such as "false"). *)
PersistValues == {"absent", "bool_false", "bool_true", "string"}

\* `if persist:` on the value read
Truthy(p) == p \in {"bool_true", "string"}

\* Mutant of NextPc: the row is inserted before the increment.
NextPcPersistFirst(pc, persist) ==
    CASE pc = "classify"  -> "persist"
      [] pc = "persist"   -> "increment"
      [] pc = "increment" -> "respond"

\* The order of the steps inside the try block.
NextPc(pc, persist) ==
    CASE pc = "classify"  -> "increment"
      [] pc = "increment" -> IF Truthy(persist) THEN "persist" ELSE "respond"
      [] pc = "persist"   -> "respond"

(* The values of request.data's persist: a request asks for a row only     *)
(* while fewer than MaxLogs rows exist or are about to.                     *)
PersistChoices ==
    IF Len(mood_logs) + Cardinality({o \in Requests : req[o].pc = "persist"}) < MaxLogs
    THEN PersistValues ELSE {"absent"}

\* Mutant of IncrementedCalls: the cached value is saved as it is.
IncrementedCallsNoAdd(cached_calls, row_calls) == cached_calls

\* profile.daily_ai_calls += 1 on the cached profile: the value save() writes
IncrementedCalls(cached_calls, row_calls) == cached_calls + 1

\* Mutant of Intensity: no clamp.
IntensityNoClamp(score) == score \div 100

\* min(10, max(1, int(score * 10))) of a score in 1/1000
Intensity(score) == Min(10, Max(1, score \div 100))

\* The row MoodLog.objects.create(...) inserts for request q
MoodLogOf(q, id) ==
    [id |-> id, user |-> "user",
     mood |-> IF q.mood # "none" THEN q.mood ELSE q.emotion.label,
     intensity |-> Intensity(q.emotion.score),
     note_len |-> Min(StripLen(q.text), 1000),
     detected_emotion |-> q.emotion.label,
     detected_confidence |-> q.emotion.score,
     advice |-> q.advice]

QuotaResponse(q, max_calls) ==
    [NoResp EXCEPT !.status = 402, !.current_calls = q.prof.daily_ai_calls,
                   !.max_calls = max_calls, !.plan = q.prof.plan]
ValidationResponse == [NoResp EXCEPT !.status = 400]
ErrorResponse == [NoResp EXCEPT !.status = 500, !.ai_unavailable = TRUE]
\* Mutant of SuccessResponse: the degraded flag is left at its default.
SuccessResponseNoFlag(q, mood_log_id) ==
    [NoResp EXCEPT !.status = 200, !.label = q.emotion.label,
                   !.score = q.emotion.score, !.advice = q.advice,
                   !.recs = q.recs, !.mood_log_id = mood_log_id]

SuccessResponse(q, mood_log_id) ==
    [NoResp EXCEPT !.status = 200, !.label = q.emotion.label,
                   !.score = q.emotion.score, !.advice = q.advice,
                   !.recs = q.recs, !.ai_unavailable = q.emotion.ai_unavailable,
                   !.mood_log_id = mood_log_id]

\* The request ends: the view returns `resp`, or an exception leaves it.
Finish(q, outcome, resp) == [q EXCEPT !.pc = "done", !.outcome = outcome, !.resp = resp]

\* q moves on from step pc; reaching "respond" assembles the 200 response.
Advance(q, mood_log_id) ==
    IF NextPc(q.pc, q.persist) = "respond"
    THEN Finish(q, "ok", SuccessResponse(q, mood_log_id))
    ELSE [q EXCEPT !.pc = NextPc(q.pc, q.persist)]

(* A request arrives and ensure_daily_reset reads user.profile (cached on   *)
(* the request's user from here on) and date.today().  A failing read       *)
(* raises out of the view.                                                  *)
EnsureDailyResetRead(r) ==
    /\ req[r].pc = "idle"
    /\ NoneDone
    /\ served < MaxServed
    /\ served' = served + 1
    /\ \E ok \in BOOLEAN :
         LET lone == \A o \in Requests \ {r} : ~InFlight(o)
             q0 == [IdleReq EXCEPT !.alone = lone, !.faulted = ~ok,
                                   !.after_fill = (hist.filled_day = DayOf(now)),
                                   !.after_quota = /\ hist.quota_day # 0
                                                   /\ hist.quota_day < DayOf(now)]
             q1 == IF ~ok THEN Finish(q0, "raised", NoResp)
                   ELSE IF NeedsReset(profile, DayOf(now))
                   THEN [q0 EXCEPT !.pc = "reset_save",
                                   !.prof = EnsureDailyReset(profile, DayOf(now))]
                   ELSE [q0 EXCEPT !.pc = "check", !.prof = profile]
         IN  req' = [o \in Requests |->
                        IF o = r THEN q1
                        ELSE IF InFlight(o) THEN [req[o] EXCEPT !.alone = FALSE]
                        ELSE req[o]]
    /\ UNCHANGED <<now, hf_token, profile, mood_logs, hist, side, fn>>

\* profile.save(update_fields=['daily_ai_calls', 'last_ai_calls_reset'])
EnsureDailyResetSave(r) ==
    /\ req[r].pc = "reset_save"
    /\ NoneDone
    /\ \E ok \in BOOLEAN :
         IF ok
         THEN /\ profile' = SaveFields(profile, req[r].prof,
                                        {"daily_ai_calls", "last_ai_calls_reset"})
              /\ hist' = [hist EXCEPT !.expected = 0]
              /\ req' = [req EXCEPT ![r].pc = "check"]
         ELSE /\ req' = [req EXCEPT ![r] =
                    Finish([req[r] EXCEPT !.faulted = TRUE], "raised", NoResp)]
              /\ UNCHANGED <<profile, hist>>
    /\ UNCHANGED <<now, hf_token, mood_logs, served, side, fn>>

(* The rest of check_ai_quota on the cached profile, then the reading and   *)
(* validation of the text.  request.data does not change during a request:  *)
(* each of its fields is drawn where the view first uses the value (text    *)
(* here, persist after the increment, mood at the insert).                  *)
CheckQuotaAndValidate(r) ==
    /\ req[r].pc = "check"
    /\ NoneDone
    /\ \E t \in Texts :
         LET max_calls == MaxCallsOf(req[r].prof, now)
             q == [req[r] EXCEPT
                     !.text = t, !.max_calls = max_calls, !.checked = TRUE,
                     !.has_quota = ~QuotaExhausted(req[r].prof.daily_ai_calls, max_calls),
                     !.seen = req[r].prof.daily_ai_calls]
             g == Gate(q.prof.daily_ai_calls, max_calls, t)
         IN  /\ req' = [req EXCEPT ![r] =
                   CASE g = "quota"   -> Finish(q, "quota", QuotaResponse(q, max_calls))
                     [] g = "raised"  -> Finish(q, "raised", NoResp)
                     [] g = "invalid" -> Finish(q, "invalid", ValidationResponse)
                     [] g = "accept"  -> [q EXCEPT !.pc = "classify"]]
             /\ hist' = IF g = "accept"
                        THEN [hist EXCEPT !.accepted = hist.accepted + 1]
                        ELSE IF g = "quota"
                        THEN [hist EXCEPT !.quota_day = q.prof.last_ai_calls_reset]
                        ELSE hist
    /\ UNCHANGED <<now, hf_token, profile, mood_logs, served, side, fn>>

(* hf_client.analyze_emotion(text), generate_advice and get_recommendations *)
(* of its label: none of the three raises.  "post" marks an outbound call.  *)
ClassifyAndAdvise(r) ==
    /\ req[r].pc = "classify"
    /\ NoneDone
    /\ \E up \in Upstreams :
         LET call == HFCall(hf_token, up)
             e == call.emotion
             q == [req[r] EXCEPT
                     !.emotion = e,
                     !.fell_back = call.fell_back,
                     !.advice = GenerateAdvice(e.label),
                     !.recs = GetRecommendations(e.label),
                     !.ev = req[r].ev
                            \o [i \in 1..call.posts |-> "post"]
                            \o <<"classify">>]
         IN  req' = [req EXCEPT ![r] = Advance(q, NULL)]
    /\ UNCHANGED <<now, hf_token, profile, mood_logs, served, hist, side, fn>>

(* increment_ai_calls: one UPDATE of daily_ai_calls from the cached         *)
(* profile, in its own transaction.  A failing save is caught by the view.  *)
IncrementAiCalls(r) ==
    /\ req[r].pc = "increment"
    /\ NoneDone
    /\ \E ok \in BOOLEAN, p \in PersistChoices :
         IF ok
         THEN LET v == IncrementedCalls(req[r].prof.daily_ai_calls,
                                        profile.daily_ai_calls)
                  q == [req[r] EXCEPT !.prof.daily_ai_calls = v,
                                      !.persist = p,
                                      !.inc_from = profile.daily_ai_calls,
                                      !.inc_to = v,
                                      !.ev = Append(req[r].ev, "increment")]
                  fill == /\ req[r].alone
                          /\ req[r].seen = req[r].max_calls - 1
                          /\ profile.daily_ai_calls = req[r].seen
                          /\ v = req[r].max_calls
              IN  /\ profile' = SaveFields(profile, q.prof, {"daily_ai_calls"})
                  /\ hist' = [hist EXCEPT
                                !.expected = hist.expected + 1,
                                !.filled_day = IF fill
                                               THEN req[r].prof.last_ai_calls_reset
                                               ELSE @,
                                !.filled_m = IF fill THEN v ELSE @]
                  /\ req' = [req EXCEPT ![r] = Advance(q, NULL)]
         ELSE /\ req' = [req EXCEPT ![r] =
                    Finish([req[r] EXCEPT !.faulted = TRUE,
                                          !.ev = Append(req[r].ev, "increment_failed")],
                           "error", ErrorResponse)]
              /\ UNCHANGED <<profile, hist>>
    /\ UNCHANGED <<now, hf_token, mood_logs, served, side, fn>>

\* MoodLog.objects.create(...).  A failing insert is caught by the view.
PersistMoodLog(r) ==
    /\ req[r].pc = "persist"
    /\ NoneDone
    /\ \E ok \in BOOLEAN, m \in Moods :
         IF ok
         THEN LET id == Len(mood_logs) + 1
                  q == [req[r] EXCEPT !.mood = m,
                                      !.ev = Append(req[r].ev, "create")]
              IN  /\ mood_logs' = Append(mood_logs, MoodLogOf(q, id))
                  /\ req' = [req EXCEPT ![r] = Advance(q, id)]
         ELSE /\ req' = [req EXCEPT ![r] =
                    Finish([req[r] EXCEPT !.faulted = TRUE,
                                          !.ev = Append(req[r].ev, "create_failed")],
                           "error", ErrorResponse)]
              /\ UNCHANGED mood_logs
    /\ UNCHANGED <<now, hf_token, profile, served, hist, side, fn>>

\* The response is delivered and the worker is free again.
Return(r) ==
    /\ req[r].pc = "done"
    /\ req' = [req EXCEPT ![r] = IdleReq]
    /\ UNCHANGED <<now, hf_token, profile, mood_logs, served, hist, side, fn>>

\* Time passes; at a day's first tick the day's history starts again.
Tick ==
    /\ now < MaxNow
    /\ NoneDone
    /\ now' = now + 1
    /\ hist' = IF DayOf(now + 1) # DayOf(now)
               THEN [hist EXCEPT !.accepted = 0, !.fixed = TRUE]
               ELSE [hist EXCEPT !.fixed =
                        hist.fixed /\ MaxCallsOf(profile, now + 1) = MaxCallsOf(profile, now)]
    /\ UNCHANGED <<hf_token, profile, mood_logs, req, served, side, fn>>

Next ==
    \/ \E r \in Requests :
         \/ EnsureDailyResetRead(r)
         \/ EnsureDailyResetSave(r)
         \/ CheckQuotaAndValidate(r)
         \/ ClassifyAndAdvise(r)
         \/ IncrementAiCalls(r)
         \/ PersistMoodLog(r)
         \/ Return(r)
    \/ Tick

Spec == Init /\ [][Next]_vars

\* ------------------------------------- payments and the profile endpoint
(* Payment.process_success on the loaded profile p at instant t: the plan,  *)
(* the expiry extended or set, the counter zeroed.                          *)
ProcessSuccessProfile(p, t) ==
    LET d == PREMIUM_MONTHLY_DAYS * TicksPerDay
        extend == p.premium_expires_at # NULL /\ p.premium_expires_at > t
    IN  [p EXCEPT !.plan = "PREMIUM",
                  !.premium_expires_at =
                      IF extend THEN p.premium_expires_at + d ELSE t + d,
                  !.daily_ai_calls = 0]

(* The webhook's success delivery about a new, pending payment, up to       *)
(* process_success's load of the profile: the payment's status is saved,    *)
(* the profile is loaded and changed in memory.                             *)
ProcessSuccessLoad ==
    /\ side.pc = "idle"
    /\ NoneDone
    /\ side.payments < MaxPayments
    /\ side' = [side EXCEPT !.pc = "pay_loaded",
                             !.prof = ProcessSuccessProfile(profile, now),
                             !.status = "SUCCESS",
                             !.payments = side.payments + 1]
    /\ UNCHANGED <<now, hf_token, profile, mood_logs, req, served, hist, fn>>

\* Payment.process_success: profile.save(), every column
ProcessSuccessSave ==
    /\ side.pc = "pay_loaded"
    /\ NoneDone
    /\ profile' = SaveFields(profile, side.prof, AllFields)
    /\ side' = [side EXCEPT !.pc = "idle", !.prof = NoProfile,
                             !.upgrades = side.upgrades + 1]
    /\ hist' = [hist EXCEPT !.expected = 0, !.fixed = FALSE]
    /\ UNCHANGED <<now, hf_token, mood_logs, req, served, fn>>

(* save_user_profile, the post_save receiver of User, after a save of the   *)
(* user through the profile endpoint: hasattr(instance, 'profile') loads    *)
(* the profile.                                                             *)
SaveUserProfileLoad ==
    /\ side.pc = "idle"
    /\ NoneDone
    /\ side.saves < MaxUserSaves
    /\ side' = [side EXCEPT !.pc = "me_loaded", !.prof = profile,
                             !.saves = side.saves + 1]
    /\ UNCHANGED <<now, hf_token, profile, mood_logs, req, served, hist, fn>>

\* save_user_profile: instance.profile.save(), every column
SaveUserProfileSave ==
    /\ side.pc = "me_loaded"
    /\ NoneDone
    /\ profile' = SaveFields(profile, side.prof, AllFields)
    /\ side' = [side EXCEPT !.pc = "idle", !.prof = NoProfile]
    /\ UNCHANGED <<now, hf_token, mood_logs, req, served, hist, fn>>

\* The worker slot whose requests run beside the webhook and the endpoint
PayRequests == {"r1"}

(* The analysis pipeline beside the payment webhook and the profile         *)
(* endpoint, for a free user one call below the ceiling and a premium user  *)
(* about to expire, with no classifier token configured.                    *)
PayInit ==
    /\ now = 1
    /\ hf_token = FALSE
    /\ profile \in { Row("FREE", NULL, FREE_DAILY_AI_CALLS - 1, DayOf(1)),
                      Row("PREMIUM", 2, FREE_DAILY_AI_CALLS, DayOf(1)) }
    /\ hist = [accepted |-> profile.daily_ai_calls, fixed |-> TRUE,
               expected |-> profile.daily_ai_calls,
               filled_day |-> 0, filled_m |-> 0, quota_day |-> 0]
    /\ mood_logs = <<>>
    /\ req = [r \in Requests |-> IdleReq]
    /\ served = 0
    /\ side = NoSide
    /\ fn = NoFn

PayNext ==
    \/ \E r \in PayRequests :
         \/ EnsureDailyResetRead(r)
         \/ EnsureDailyResetSave(r)
         \/ CheckQuotaAndValidate(r)
         \/ ClassifyAndAdvise(r)
         \/ IncrementAiCalls(r)
         \/ PersistMoodLog(r)
         \/ Return(r)
    \/ Tick
    \/ ProcessSuccessLoad
    \/ ProcessSuccessSave
    \/ SaveUserProfileLoad
    \/ SaveUserProfileSave

PaySpec == PayInit /\ [][PayNext]_vars

\* ------------------------------------- the deliveries about one payment
(* intasend_webhook with a state of COMPLETE, COMPLETED or SUCCESS about    *)
(* the payment: nothing when the payment's status is SUCCESS (line 84, or   *)
(* process_success's own test); else process_success saves the status and   *)
(* loads and changes the profile.  ProcessSuccessSave ends the delivery.    *)
WebhookSuccess ==
    /\ side.pc = "idle"
    /\ side.hooks < MaxDeliveries
    /\ side' = IF side.status = "SUCCESS"
               THEN [side EXCEPT !.hooks = side.hooks + 1]
               ELSE [side EXCEPT !.hooks = side.hooks + 1,
                                 !.status = "SUCCESS",
                                 !.pc = "pay_loaded",
                                 !.prof = ProcessSuccessProfile(profile, now)]
    /\ UNCHANGED <<now, hf_token, profile, mood_logs, req, served, hist, fn>>

(* intasend_webhook with a state of FAILED, CANCELLED or EXPIRED: the       *)
(* status is set and saved, whatever it was.                                *)
WebhookFailed ==
    /\ side.pc = "idle"
    /\ side.hooks < MaxDeliveries
    /\ side' = [side EXCEPT !.hooks = side.hooks + 1, !.status = "FAILED"]
    /\ UNCHANGED <<now, hf_token, profile, mood_logs, req, served, hist, fn>>

\* intasend_webhook with any other state: the webhook data alone is saved.
WebhookOther ==
    /\ side.pc = "idle"
    /\ side.hooks < MaxDeliveries
    /\ side' = [side EXCEPT !.hooks = side.hooks + 1]
    /\ UNCHANGED <<now, hf_token, profile, mood_logs, req, served, hist, fn>>

(* The webhook deliveries about one pending payment of a free user, of a    *)
(* premium user about to expire and of a premium user with time left, one   *)
(* delivery handled at a time, no analysis running.                         *)
HookInit ==
    /\ now = 1
    /\ hf_token = FALSE
    /\ profile \in { Row("FREE", NULL, FREE_DAILY_AI_CALLS - 1, DayOf(1)),
                      Row("PREMIUM", 2, FREE_DAILY_AI_CALLS, DayOf(1)),
                      Row("PREMIUM", MaxNow + 1, PREMIUM_DAILY_AI_CALLS - 1, DayOf(1)) }
    /\ hist = [accepted |-> profile.daily_ai_calls, fixed |-> TRUE,
               expected |-> profile.daily_ai_calls,
               filled_day |-> 0, filled_m |-> 0, quota_day |-> 0]
    /\ mood_logs = <<>>
    /\ req = [r \in Requests |-> IdleReq]
    /\ served = 0
    /\ side = NoSide
    /\ fn = NoFn

HookNext ==
    \/ WebhookSuccess
    \/ ProcessSuccessSave
    \/ WebhookFailed
    \/ WebhookOther
    \/ Tick

HookSpec == HookInit /\ [][HookNext]_vars

\* ------------------------------------------- the functions on their own
\* A classifier score: 0.000 to 1.000 in 1/1000
Scores == 0..1000

\* Labels and mood strings, in several letter cases, known and unknown
Labels ==
    { "admiration", "amusement", "approval", "caring", "curiosity", "desire",
      "disappointment", "disapproval", "embarrassment", "excitement",
      "gratitude", "grief", "love", "nervousness", "optimism", "pride",
      "realization", "relief", "remorse", "confusion" }
    \cup AdviceBuckets \cup PlaylistMoods
    \cup { "neutral", "xyz", "", "JOY", "Joy", "Sadness", "SURPRISE", "Gratitude",
           "ADMIRATION", "Relief", "FEAR", "Disgust", "ANGER", "Calm", "HAPPY",
           "Tired", "Neutral", "XYZ" }

\* Upstream behaviours beyond those the requests of Spec meet
FnUpstreams ==
    Upstreams \cup
    { [kind |-> "json", body |-> List(<<Str>>)],
      [kind |-> "json", body |-> List(<<List(<<NoScore("joy")>>)>>)],
      [kind |-> "json", body |-> List(<<NoScore("joy"), Obj("fear", 9000)>>)],
      [kind |-> "json", body |-> List(<<NoLabel(1000), Obj("joy", 9500)>>)],
      [kind |-> "json", body |-> List(<<NoLabel(9500), Obj("joy", 1000)>>)],
      [kind |-> "json", body |-> List(<<Obj("neutral", 5000)>>)],
      [kind |-> "json", body |-> List(<<Obj("Sadness", 5494), Obj("joy", 5494)>>)] }

(* Well-formed answers of the classifier, as lists of {label, score}: one   *)
(* entry, the maximum last, in the middle, twice (a tie), scores that round *)
(* up and down, and the scores 1 and 0.0001.                                *)
EntryLists ==
    { <<Obj("joy", 9500)>>,
      <<Obj("fear", 1000), Obj("JOY", 9500)>>,
      <<Obj("Sadness", 5494), Obj("joy", 5494)>>,
      <<Obj("ANGER", 3333), Obj("Calm", 3334), Obj("FEAR", 3333)>>,
      <<Obj("neutral", 5000)>>,
      <<Obj("Gratitude", 9876), Obj("joy", 124)>>,
      <<Obj("joy", 10000)>>,
      <<Obj("SURPRISE", 1), Obj("Disgust", 0)>> }

\* The rows and instants check_ai_quota is applied to
QuotaStates ==
    { Row(plan, expires, calls, last_reset) :
        plan \in {"FREE", "PREMIUM"},
        expires \in {NULL} \cup (1..(MaxNow + 1)),
        calls \in {0, FREE_DAILY_AI_CALLS - 1, FREE_DAILY_AI_CALLS,
                   PREMIUM_DAILY_AI_CALLS - 1, PREMIUM_DAILY_AI_CALLS},
        last_reset \in {NULL} \cup (1..DayOf(MaxNow)) }

FnInput(op, arg) == [op |-> op, done |-> FALSE, arg |-> arg, out |-> 0]

FnInit ==
    /\ now = 1
    /\ hf_token = TRUE
    /\ profile = Row("FREE", NULL, 0, NULL)
    /\ hist = [accepted |-> 0, fixed |-> TRUE, expected |-> 0,
               filled_day |-> 0, filled_m |-> 0, quota_day |-> 0]
    /\ mood_logs = <<>>
    /\ req = [r \in Requests |-> IdleReq]
    /\ served = 0
    /\ side = NoSide
    /\ \/ \E s \in Scores : fn = FnInput("Intensity", s)
       \/ \E token \in BOOLEAN, up \in FnUpstreams :
             fn = FnInput("HFCall", [token |-> token, up |-> up])
       \/ \E l \in Labels : fn = FnInput("GenerateAdvice", l)
       \/ \E l \in Labels : fn = FnInput("GetRecommendations", l)
       \/ \E p \in QuotaStates, t \in 1..MaxNow :
             fn = FnInput("CheckAiQuota", [p |-> p, t |-> t])
       \/ \E es \in EntryLists : fn = FnInput("HFCallShapes", es)
       \/ \E p \in QuotaStates, t \in 1..MaxNow :
             /\ p.last_ai_calls_reset <= DayOf(t)
             /\ p.last_ai_calls_reset = NULL => p.daily_ai_calls = 0
             /\ fn = FnInput("RemainingAiCalls", [p |-> p, t |-> t])
       \/ \E p \in QuotaStates, today \in 1..DayOf(MaxNow) :
             /\ p.last_ai_calls_reset <= today
             /\ fn = FnInput("EnsureDailyReset", [p |-> p, today |-> today])

FnFrame == UNCHANGED <<now, hf_token, profile, mood_logs, req, served, hist, side>>

ApplyIntensity ==
    /\ fn.op = "Intensity" /\ ~fn.done
    /\ fn' = [fn EXCEPT !.done = TRUE, !.out = Intensity(fn.arg)]
    /\ FnFrame

ApplyHFCall ==
    /\ fn.op = "HFCall" /\ ~fn.done
    /\ fn' = [fn EXCEPT !.done = TRUE, !.out = HFCall(fn.arg.token, fn.arg.up)]
    /\ FnFrame

ApplyGenerateAdvice ==
    /\ fn.op = "GenerateAdvice" /\ ~fn.done
    /\ fn' = [fn EXCEPT !.done = TRUE, !.out = GenerateAdvice(fn.arg)]
    /\ FnFrame

ApplyGetRecommendations ==
    /\ fn.op = "GetRecommendations" /\ ~fn.done
    /\ fn' = [fn EXCEPT !.done = TRUE, !.out = GetRecommendations(fn.arg)]
    /\ FnFrame

ApplyCheckAiQuota ==
    /\ fn.op = "CheckAiQuota" /\ ~fn.done
    /\ fn' = [fn EXCEPT !.done = TRUE, !.out = CheckAiQuota(fn.arg.p, fn.arg.t)]
    /\ FnFrame

(* ensure_daily_reset(user) called twice on the day `today`: the profile    *)
(* after the first call and after the second.                               *)
ApplyEnsureDailyReset ==
    /\ fn.op = "EnsureDailyReset" /\ ~fn.done
    /\ LET once == EnsureDailyReset(fn.arg.p, fn.arg.today)
       IN  fn' = [fn EXCEPT !.done = TRUE,
                            !.out = [once |-> once,
                                     twice |-> EnsureDailyReset(once, fn.arg.today)]]
    /\ FnFrame

(* HFClient.analyze_emotion with the token configured, on a 2xx answer      *)
(* whose JSON is the list of entries, and on one whose JSON is a list       *)
(* holding that list.                                                       *)
ApplyHFCallShapes ==
    /\ fn.op = "HFCallShapes" /\ ~fn.done
    /\ fn' = [fn EXCEPT
                !.done = TRUE,
                !.out = [flat |-> HFCall(TRUE, [kind |-> "json", body |-> List(fn.arg)]),
                         nested |-> HFCall(TRUE, [kind |-> "json",
                                                  body |-> List(<<List(fn.arg)>>)])]]
    /\ FnFrame

ApplyRemainingAiCalls ==
    /\ fn.op = "RemainingAiCalls" /\ ~fn.done
    /\ fn' = [fn EXCEPT !.done = TRUE, !.out = RemainingAiCalls(fn.arg.p, fn.arg.t)]
    /\ FnFrame

FnNext ==
    \/ ApplyIntensity
    \/ ApplyHFCall
    \/ ApplyGenerateAdvice
    \/ ApplyGetRecommendations
    \/ ApplyCheckAiQuota
    \/ ApplyEnsureDailyReset
    \/ ApplyHFCallShapes
    \/ ApplyRemainingAiCalls

FnSpec == FnInit /\ [][FnNext]_vars

\* ------------------------------------------------------------- claims
Done(r) == req[r].pc = "done"
Count(ev, x) == Cardinality({i \in 1..Len(ev) : ev[i] = x})
\* The place of the first x in ev, 0 when there is none
First(ev, x) ==
    IF Count(ev, x) = 0 THEN 0
    ELSE CHOOSE i \in 1..Len(ev) : ev[i] = x /\ \A j \in 1..(i - 1) : ev[j] # x
\* The request passed the quota check and the validation of its text.
Accepted(q) == q.checked /\ q.has_quota /\ ValidateText(q.text) = "ok"

(* C1: with the ceiling m of the user's plan unchanged during the day, the   *)
(* number of analyses accepted (quota check and validation passed, classify *)
(* reached) within one calendar day never exceeds m, under any interleaving *)
(* of the user's requests.                                                  *)
C1_AcceptedWithinCeiling ==
    hist.fixed => hist.accepted <= MaxCallsOf(profile, now)

(* C2: once all requests have finished, the counter equals what serialized  *)
(* increments give: the value of the last daily reset (or the initial one)  *)
(* plus one per increment performed since; no increment is lost.            *)
C2_IncrementsSerialize ==
    (\A r \in Requests : ~InFlight(r)) => profile.daily_ai_calls = hist.expected

(* C3: a request whose quota check does not allow it ends with the 402      *)
(* response carrying the counter the check read, the ceiling and the plan,  *)
(* whatever its text is; it made no classifier call, no increment and no    *)
(* mood log row.                                                            *)
C3_QuotaErrorFirst ==
    \A r \in Requests :
        (req[r].checked /\ ~req[r].has_quota) =>
            /\ Done(r)
            /\ req[r].outcome = "quota"
            /\ req[r].resp = [NoResp EXCEPT !.status = 402,
                                            !.current_calls = req[r].seen,
                                            !.max_calls = req[r].max_calls,
                                            !.plan = req[r].prof.plan]
            /\ req[r].seen >= req[r].max_calls
            /\ req[r].ev = <<>>

C3_Witness ==
    \E r \in Requests :
        /\ Done(r) /\ req[r].checked /\ ~req[r].has_quota
        /\ req[r].outcome = "quota"
        /\ StripLen(req[r].text) > MAX_TEXT_LEN

(* C4: a request performs its increment at most once, only after classify   *)
(* has returned, and creates a mood log row only after the increment; an    *)
(* accepted request that has ended has called increment exactly once; and   *)
(* when the request ran with no other in flight, the increment raised the   *)
(* row's counter by exactly 1.                                              *)
C4_IncrementOnceAfterClassify ==
    \A r \in Requests :
        LET ev == req[r].ev
            incs == Count(ev, "increment") + Count(ev, "increment_failed")
            rows == Count(ev, "create") + Count(ev, "create_failed")
        IN  /\ incs <= 1
            /\ incs = 1 => /\ Count(ev, "classify") = 1
                           /\ First(ev, "classify") < First(ev, "increment")
                                                      + First(ev, "increment_failed")
            /\ rows >= 1 => /\ Count(ev, "increment") = 1
                            /\ First(ev, "increment") < First(ev, "create")
                                                        + First(ev, "create_failed")
            /\ (Done(r) /\ Accepted(req[r])) => incs = 1
            /\ (req[r].alone /\ Count(ev, "increment") = 1) =>
                   req[r].inc_to = req[r].inc_from + 1

C4_Witness ==
    \E r \in Requests :
        /\ Done(r) /\ req[r].outcome = "ok" /\ req[r].alone
        /\ req[r].ev = <<"post", "classify", "increment", "create">>
        /\ req[r].inc_to = req[r].inc_from + 1

(* C5: with no classifier token configured, classify returns the neutral    *)
(* fallback without an outbound call, and every accepted request whose      *)
(* database operations succeed ends with the 200 response carrying label    *)
(* "neutral", score 0.5 and the degraded flag, having incremented the       *)
(* counter once (by exactly one when no other request was in flight).       *)
C5_NoTokenDegraded ==
    ~hf_token =>
        \A r \in Requests :
            /\ Count(req[r].ev, "post") = 0
            /\ Count(req[r].ev, "classify") = 1 => req[r].emotion = FALLBACK
            /\ (Done(r) /\ Accepted(req[r]) /\ ~req[r].faulted) =>
                   /\ req[r].outcome = "ok"
                   /\ req[r].resp.status = 200
                   /\ req[r].resp.label = "neutral"
                   /\ req[r].resp.score = 500
                   /\ req[r].resp.ai_unavailable
                   /\ Count(req[r].ev, "increment") = 1
                   /\ req[r].inc_to = req[r].seen + 1
                   /\ req[r].alone => req[r].inc_to = req[r].inc_from + 1

C5_Witness ==
    /\ ~hf_token
    /\ \E r \in Requests :
         /\ Done(r) /\ req[r].outcome = "ok" /\ req[r].alone
         /\ req[r].resp.label = "neutral" /\ req[r].resp.ai_unavailable
         /\ req[r].ev = <<"classify", "increment">>
         /\ profile.daily_ai_calls = req[r].seen + 1

\* The text is missing or empty after trimming.
EmptyText(t) == t.kind = "absent" \/ (t.kind = "string" /\ StripLen(t) = 0)

(* C6 as stated: a request that passes the quota check and whose text is    *)
(* missing, empty after trimming, or longer than 1000 characters ends with  *)
(* the 400 response, with no classifier call, no increment and no row.      *)
C6_Original ==
    \A r \in Requests :
        ( /\ req[r].checked /\ req[r].has_quota
          /\ \/ EmptyText(req[r].text)
             \/ req[r].text.kind = "string" /\ RawLen(req[r].text) > MAX_TEXT_LEN ) =>
            /\ Done(r)
            /\ req[r].outcome = "invalid"
            /\ req[r].resp = ValidationResponse
            /\ req[r].ev = <<>>

(* C6 amended: a request that passes the quota check and whose text is      *)
(* missing, empty after trimming, or longer than 1000 characters after      *)
(* trimming ends with the 400 response, with no classifier call, no         *)
(* increment and no row.                                                    *)
C6_TrimmedTextValidated ==
    \A r \in Requests :
        ( /\ req[r].checked /\ req[r].has_quota
          /\ \/ EmptyText(req[r].text)
             \/ req[r].text.kind = "string" /\ StripLen(req[r].text) > MAX_TEXT_LEN ) =>
            /\ Done(r)
            /\ req[r].outcome = "invalid"
            /\ req[r].resp = ValidationResponse
            /\ req[r].ev = <<>>

C6_Witness ==
    \E r \in Requests :
        /\ Done(r) /\ req[r].checked /\ req[r].has_quota
        /\ req[r].text.kind = "string" /\ StripLen(req[r].text) > MAX_TEXT_LEN
        /\ req[r].outcome = "invalid"

(* C7: when persist is set, no request ends with the counter incremented    *)
(* and no mood log row created, or with a row created and no increment.     *)
C7_IncrementAndRowTogether ==
    \A r \in Requests :
        (Done(r) /\ Truthy(req[r].persist)) =>
            (Count(req[r].ev, "increment") = 1 <=> Count(req[r].ev, "create") = 1)

(* C8 as stated: a request that ends in the 402 or 400 response or fails    *)
(* before classify has made no increment, and every request in which        *)
(* classify returned has raised the counter by one when it ends, also when  *)
(* the increment, the insert or the response assembly fails.                *)
C8_Original ==
    \A r \in Requests :
        Done(r) =>
            /\ Count(req[r].ev, "classify") = 0 =>
                   Count(req[r].ev, "increment") = 0
            /\ Count(req[r].ev, "classify") = 1 =>
                   /\ Count(req[r].ev, "increment") = 1
                   /\ req[r].inc_to = req[r].seen + 1

(* C8 amended: a request that ends in the 402 or 400 response or fails      *)
(* before classify makes no increment; a request in which classify returned *)
(* and whose increment succeeds sets the counter to the value its quota     *)
(* check read plus one, also when the insert fails afterwards and the       *)
(* response is the 500 one; when the increment itself fails the response is *)
(* the 500 one and the request has not changed the counter.                 *)
C8_ConsumptionPolicy ==
    \A r \in Requests :
        Done(r) =>
            /\ req[r].outcome \in {"quota", "invalid", "raised"} =>
                   /\ Count(req[r].ev, "classify") = 0
                   /\ Count(req[r].ev, "increment") = 0
            /\ Count(req[r].ev, "classify") = 0 =>
                   Count(req[r].ev, "increment") = 0
            /\ Count(req[r].ev, "classify") = 1 =>
                   \/ /\ Count(req[r].ev, "increment") = 1
                      /\ req[r].inc_to = req[r].seen + 1
                   \/ /\ Count(req[r].ev, "increment") = 0
                      /\ Count(req[r].ev, "increment_failed") = 1
                      /\ req[r].outcome = "error"
            /\ Count(req[r].ev, "create_failed") = 1 =>
                   /\ Count(req[r].ev, "increment") = 1
                   /\ req[r].outcome = "error"

C8_Witness ==
    \E r \in Requests :
        /\ Done(r) /\ req[r].outcome = "error"
        /\ req[r].ev = <<"post", "classify", "increment", "create_failed">>
        /\ req[r].inc_to = req[r].seen + 1

(* C9: every request whose database operations succeed ends in one of the   *)
(* four responses (200, 402, 400, or the generic 500 with the degraded      *)
(* flag): no exception leaves the view.                                     *)
C9_FourOutcomes ==
    \A r \in Requests :
        (Done(r) /\ ~req[r].faulted) =>
            /\ req[r].outcome \in {"ok", "quota", "invalid", "error"}
            /\ req[r].resp.status \in {200, 402, 400, 500}

(* C10: the counter is never negative, and the value an increment leaves in *)
(* the row is at most the ceiling that the same request's quota check       *)
(* computed, under any interleaving.                                        *)
C10_CounterWithinCheckedCeiling ==
    /\ profile.daily_ai_calls >= 0
    /\ \A r \in Requests :
         Count(req[r].ev, "increment") = 1 => req[r].inc_to <= req[r].max_calls

C10_Witness ==
    \E r \in Requests :
        /\ Count(req[r].ev, "increment") = 1
        /\ ~req[r].alone
        /\ req[r].inc_to = req[r].max_calls
        /\ profile.daily_ai_calls = req[r].inc_to

(* C11: a request whose quota check reads a counter one below the ceiling   *)
(* and whose text is valid is accepted; and once a request running alone    *)
(* has raised the counter from m-1 to its ceiling m, every request that     *)
(* arrives later on the same day is rejected with the 402 response, makes   *)
(* no classifier call and no increment, and, when it ran with no other in   *)
(* flight, leaves the counter at m.                                         *)
C11_LastCallThenRejected ==
    \A r \in Requests :
        /\ ( /\ req[r].checked
              /\ req[r].max_calls >= 1
              /\ req[r].seen = req[r].max_calls - 1
              /\ ValidateText(req[r].text) = "ok" ) =>
                /\ req[r].has_quota
                /\ req[r].outcome \notin {"quota", "invalid", "raised"}
                /\ req[r].pc # "check"
        /\ (req[r].after_fill /\ req[r].checked) =>
                /\ Done(r)
                /\ req[r].outcome = "quota"
                /\ req[r].resp.status = 402
                /\ req[r].seen = hist.filled_m
                /\ req[r].ev = <<>>
                /\ req[r].alone => profile.daily_ai_calls = hist.filled_m

C11_Witness ==
    \E r \in Requests :
        /\ Done(r) /\ req[r].alone /\ req[r].after_fill
        /\ req[r].outcome = "quota"
        /\ ValidateText(req[r].text) = "ok"
        /\ hist.filled_m = FREE_DAILY_AI_CALLS
        /\ profile.daily_ai_calls = FREE_DAILY_AI_CALLS

(* C12: a request creates at most one mood log row, and only when it was    *)
(* accepted and its persist flag is true; a request whose persist is false  *)
(* or absent, or that ended with the 402 or 400 response, creates none;     *)
(* every row is owned by the requesting user; and a 200 response carries a  *)
(* record identifier exactly when the request created a row.                *)
C12_RowOnlyWhenPersistTrue ==
    /\ \A i \in 1..Len(mood_logs) : mood_logs[i].user = "user"
    /\ \A r \in Requests :
         /\ Count(req[r].ev, "create") <= 1
         /\ Count(req[r].ev, "create") = 1 =>
                /\ Accepted(req[r])
                /\ req[r].persist = "bool_true"
         /\ req[r].outcome \in {"quota", "invalid"} => Count(req[r].ev, "create") = 0
         /\ (Done(r) /\ req[r].outcome = "ok") =>
                (req[r].resp.mood_log_id # NULL <=> Count(req[r].ev, "create") = 1)

Clamp(x, lo, hi) == Min(hi, Max(lo, x))
\* s * 10 for a score s in 1/1000, rounded to the nearest integer (ties to even)
RoundTimes10(s) ==
    LET q == s \div 100
        r == s % 100
    IN  IF r < 50 THEN q
        ELSE IF r > 50 THEN q + 1
        ELSE IF q % 2 = 0 THEN q ELSE q + 1
\* s * 10 truncated to an integer
FloorTimes10(s) == s \div 100

(* C13 as stated: for every score s of 0.000..1.000 the stored intensity is *)
(* clamp(round(s * 10), 1, 10), an integer in 1..10.                        *)
C13_Original ==
    (fn.op = "Intensity" /\ fn.done) =>
        /\ fn.out = Clamp(RoundTimes10(fn.arg), 1, 10)
        /\ fn.out \in 1..10

(* C13 amended: for every score s of 0.000..1.000 the stored intensity is   *)
(* clamp(floor(s * 10), 1, 10): s * 10 is truncated, not rounded; it is an  *)
(* integer in 1..10, and so is the intensity of every row analyze creates.  *)
C13_IntensityTruncates ==
    /\ (fn.op = "Intensity" /\ fn.done) =>
          /\ fn.out = Clamp(FloorTimes10(fn.arg), 1, 10)
          /\ fn.out \in 1..10
    /\ \A i \in 1..Len(mood_logs) :
          /\ mood_logs[i].intensity \in 1..10
          /\ mood_logs[i].intensity =
                 Clamp(FloorTimes10(mood_logs[i].detected_confidence), 1, 10)

C13_Witness ==
    /\ fn.op = "Intensity" /\ fn.done
    /\ fn.arg = 970
    /\ fn.out = 9
    /\ RoundTimes10(fn.arg) = 10

\* The upstream's answer is one of the failures the gateway is written for.
NoList(up) == up.kind # "json" \/ up.body.t # "list"
Entries(up) ==
    IF Len(up.body.items) > 0 /\ up.body.items[1].t = "list"
    THEN up.body.items[1].items ELSE up.body.items
SomeEntryLacks(up) ==
    \E i \in 1..Len(Entries(up)) :
        ~Entries(up)[i].has_label \/ ~Entries(up)[i].has_score
TopEntryLacks(up) ==
    \/ \E i \in 1..Len(Entries(up)) : ~Entries(up)[i].has_score
    \/ ~TopEmotion(Entries(up)).has_label
NeutralDegraded == [label |-> "neutral", score |-> 500, ai_unavailable |-> TRUE]

(* C14 as stated: classify returns exactly the neutral degraded fallback    *)
(* with no credential, on a transport error, a timeout, a non-2xx status, a *)
(* body that is not JSON, a payload that is not a list, an empty list, a    *)
(* nested empty list, and whenever an entry lacks its label or its score.   *)
C14_Original ==
    ( /\ fn.op = "HFCall" /\ fn.done
      /\ \/ ~fn.arg.token
         \/ NoList(fn.arg.up)
         \/ Len(Entries(fn.arg.up)) = 0
         \/ SomeEntryLacks(fn.arg.up) ) =>
        fn.out.emotion = NeutralDegraded

(* C14 amended: classify always returns a result, and returns exactly the   *)
(* neutral degraded fallback with no credential, on a transport error, a    *)
(* timeout, a non-2xx status, a body that is not JSON, a payload that is    *)
(* not a list, an empty list, a nested empty list, an entry lacking its     *)
(* score, or the top-scored entry lacking its label; an entry without a     *)
(* label that is not the top-scored one does not make it fall back.         *)
C14_ClassifyFallsBack ==
    (fn.op = "HFCall" /\ fn.done) =>
        /\ fn.out.emotion.label # ""
        /\ fn.out.emotion.score \in Scores
        /\ ( \/ ~fn.arg.token
              \/ NoList(fn.arg.up)
              \/ Len(Entries(fn.arg.up)) = 0
              \/ TopEntryLacks(fn.arg.up) ) <=> fn.out.fell_back
        /\ fn.out.fell_back => fn.out.emotion = NeutralDegraded
        /\ ~fn.out.fell_back => ~fn.out.emotion.ai_unavailable

C14_Witness ==
    /\ fn.op = "HFCall" /\ fn.done
    /\ fn.arg.token
    /\ fn.arg.up.kind = "json" /\ fn.arg.up.body.t = "list"
    /\ Len(Entries(fn.arg.up)) = 1
    /\ ~Entries(fn.arg.up)[1].has_label
    /\ fn.out.emotion = NeutralDegraded

\* The advice remap table and its canonical buckets, as the claim names them
RemapKeys ==
    { "admiration", "amusement", "approval", "caring", "curiosity", "desire",
      "disappointment", "disapproval", "embarrassment", "excitement",
      "gratitude", "grief", "love", "nervousness", "optimism", "pride",
      "realization", "relief", "remorse", "confusion" }
CanonicalBuckets ==
    { "joy", "sadness", "anger", "fear", "surprise", "disgust", "anxious",
      "stressed", "calm", "excited", "tired", "content" }

(* C15: adviseFor answers every label, in any letter case, with the         *)
(* template of its bucket followed by the disclaimer: the bucket is the     *)
(* remap table's image of the lower-cased label, or the lower-cased label   *)
(* itself; a bucket without a template gets the generic one; and every      *)
(* label of the remap table gets the template of a canonical bucket.        *)
C15_AdviceTemplateAndDisclaimer ==
    (fn.op = "GenerateAdvice" /\ fn.done) =>
        LET key == Lower(fn.arg)
        IN  /\ fn.out.tail = "disclaimer"
            /\ key \in RemapKeys =>
                   /\ fn.out.template \in CanonicalBuckets
                   /\ fn.out.template # key
                   /\ fn.out.template # "generic"
            /\ key \in CanonicalBuckets => fn.out.template = key
            /\ key \notin RemapKeys \cup CanonicalBuckets =>
                   fn.out.template = "generic"
            /\ key = "gratitude" => fn.out.template = "content"
            /\ key = "relief" => fn.out.template = "calm"
            /\ key = "admiration" => fn.out.template = "joy"

C15_Witness ==
    /\ fn.op = "GenerateAdvice" /\ fn.done
    /\ fn.arg = "Gratitude"
    /\ fn.out = [template |-> "content", tail |-> "disclaimer"]

(* C16: recommendFor answers every string with a non-empty list: for joy,   *)
(* sadness, fear, anger, surprise, disgust in any letter case the lists of  *)
(* happy, sad, anxious, angry, excited, angry; for a key of the playlist    *)
(* table that key's two entries; for any other string the two entries of    *)
(* "calm".                                                                  *)
C16_RecommendationsNeverEmpty ==
    (fn.op = "GetRecommendations" /\ fn.done) =>
        LET key == Lower(fn.arg)
        IN  /\ Len(fn.out) = 2
            /\ key = "joy" => fn.out = <<"Feel Good Hits", "Happy Pop">>
            /\ key = "sadness" => fn.out = <<"Sad Songs", "Melancholy Indie">>
            /\ key = "fear" => fn.out = <<"Calm & Peaceful", "Focus Flow">>
            /\ key = "anger" => fn.out = <<"Anger Management", "Calming Classical">>
            /\ key = "surprise" => fn.out = <<"Energy Boost", "Upbeat Pop">>
            /\ key = "disgust" => fn.out = <<"Anger Management", "Calming Classical">>
            /\ key \in PlaylistMoods => fn.out = MoodPlaylists(key)
            /\ key \notin PlaylistMoods
                        \cup {"joy", "sadness", "fear", "anger", "surprise", "disgust"} =>
                   fn.out = <<"Peaceful Piano", "Nature Sounds">>

C16_Witness ==
    /\ fn.op = "GetRecommendations" /\ fn.done
    /\ fn.arg = "SURPRISE"
    /\ fn.out = <<"Energy Boost", "Upbeat Pop">>

\* The counter the quota check works on: 0 when the day's reset is due.
CallsToday(p, t) ==
    IF p.last_ai_calls_reset = NULL \/ p.last_ai_calls_reset < DayOf(t)
    THEN 0 ELSE p.daily_ai_calls
\* The ceiling the claim names for row p at instant t
CeilingOf(p, t) ==
    IF p.plan = "PREMIUM" /\ p.premium_expires_at # NULL /\ p.premium_expires_at > t
    THEN PREMIUM_DAILY_AI_CALLS ELSE FREE_DAILY_AI_CALLS

C17_ResponseEchoesClassifier ==
    \A r \in Requests :
        (Done(r) /\ req[r].outcome = "ok") =>
            /\ Accepted(req[r])
            /\ req[r].resp.status = 200
            /\ req[r].resp.label = req[r].emotion.label
            /\ req[r].resp.score = req[r].emotion.score
            /\ req[r].resp.advice = GenerateAdvice(req[r].emotion.label)
            /\ req[r].resp.recs = GetRecommendations(req[r].emotion.label)
            /\ req[r].resp.ai_unavailable <=> req[r].fell_back
            /\ req[r].resp.label = "joy" =>
                   /\ req[r].resp.advice = [template |-> "joy", tail |-> "disclaimer"]
                   /\ req[r].resp.recs = <<"Feel Good Hits", "Happy Pop">>

C17_Witness ==
    \E r \in Requests :
        /\ Done(r) /\ req[r].outcome = "ok"
        /\ ~req[r].fell_back
        /\ req[r].resp.label = "joy" /\ req[r].resp.score = 950
        /\ req[r].resp.advice.template = "joy"
        /\ req[r].resp.recs = <<"Feel Good Hits", "Happy Pop">>
        /\ ~req[r].resp.ai_unavailable

(* C18: no step of an analyze request (daily reset, quota check, increment, *)
(* persistence, response) changes the plan or the premium expiry of the     *)
(* user's row, also when a payment or a save of the user runs between the   *)
(* request's steps.                                                         *)
C18_AnalyzeKeepsPlanAndExpiry ==
    [][ (req' # req) =>
            /\ profile'.plan = profile.plan
            /\ profile'.premium_expires_at = profile.premium_expires_at ]_vars

C18_Witness ==
    \E r \in Requests :
        /\ Done(r)
        /\ Count(req[r].ev, "increment") = 1
        /\ req[r].prof.plan = "FREE"
        /\ profile.plan = "PREMIUM"
        /\ profile.daily_ai_calls = req[r].inc_to

(* C19: every step that changes the counter of the user's row is the        *)
(* increment of an analyze request or the save of its daily reset: no step  *)
(* of payment processing and no save of the user or the profile changes it. *)
C19_CounterChangedByQuotaManagerOnly ==
    [][ (profile'.daily_ai_calls # profile.daily_ai_calls) =>
            \E r \in Requests :
                \/ /\ req[r].pc = "increment"
                   /\ Count(req'[r].ev, "increment") = 1
                \/ /\ req[r].pc = "reset_save"
                   /\ req'[r].pc = "check"
                   /\ profile'.daily_ai_calls = 0 ]_vars

C22_ResetIdempotent ==
    (fn.op = "EnsureDailyReset" /\ fn.done) =>
        /\ fn.arg.p.last_ai_calls_reset = fn.arg.today => fn.out.once = fn.arg.p
        /\ fn.out.once.last_ai_calls_reset = fn.arg.today
        /\ fn.out.twice = fn.out.once
        /\ fn.out.twice.daily_ai_calls = fn.out.once.daily_ai_calls

C22_Witness ==
    /\ fn.op = "EnsureDailyReset" /\ fn.done
    /\ fn.arg.p.last_ai_calls_reset = fn.arg.today
    /\ fn.arg.p.daily_ai_calls = FREE_DAILY_AI_CALLS
    /\ fn.out.once.daily_ai_calls = FREE_DAILY_AI_CALLS
    /\ fn.out.twice.daily_ai_calls = FREE_DAILY_AI_CALLS

\* The place of the first entry of es that has the greatest score
FirstMax(es) ==
    CHOOSE i \in 1..Len(es) :
        /\ \A j \in 1..Len(es) : es[j].score <= es[i].score
        /\ \A j \in 1..(i - 1) : es[j].score < es[i].score
\* The 1/1000 nearest to a score given in 1/10000
Nearest(x) == CHOOSE k \in 0..1000 : (10 * k - x) \in -4..4

(* C23: on a 2xx answer whose payload is a non-empty list of {label, score} *)
(* entries, or a list whose first element is that list, classify returns    *)
(* the lower-cased label of the first entry with the greatest score, that   *)
(* score rounded to 3 decimals, and no degraded flag; the flat and the      *)
(* nested payload of the same entries give the same result.                 *)
C23_TopEntryOfBothShapes ==
    (fn.op = "HFCallShapes" /\ fn.done) =>
        LET top == fn.arg[FirstMax(fn.arg)]
        IN  /\ fn.out.flat.emotion = [label |-> Lower(top.label),
                                      score |-> Nearest(top.score),
                                      ai_unavailable |-> FALSE]
            /\ fn.out.nested.emotion = fn.out.flat.emotion
            /\ ~fn.out.flat.fell_back /\ ~fn.out.nested.fell_back
            /\ fn.out.flat.posts = 1 /\ fn.out.nested.posts = 1
            /\ fn.arg = <<Obj("fear", 1000), Obj("JOY", 9500)>> =>
                   fn.out.flat.emotion.label = "joy"
            /\ fn.arg = <<Obj("Sadness", 5494), Obj("joy", 5494)>> =>
                   fn.out.flat.emotion.label = "sadness"
            /\ fn.arg = <<Obj("Gratitude", 9876), Obj("joy", 124)>> =>
                   fn.out.flat.emotion.score = 988

C23_Witness ==
    /\ fn.op = "HFCallShapes" /\ fn.done
    /\ fn.arg = <<Obj("Sadness", 5494), Obj("joy", 5494)>>
    /\ fn.out.flat.emotion = [label |-> "sadness", score |-> 549,
                              ai_unavailable |-> FALSE]
    /\ fn.out.nested = fn.out.flat

(* C24: a request makes at most one outbound classifier call: none when it  *)
(* ends with the 402 or the 400 response or before the quota check returns, *)
(* none when no token is configured, and exactly one, never a second after  *)
(* a failed one, when classify ran with the token configured.               *)
C24_AtMostOneOutboundCall ==
    \A r \in Requests :
        /\ Count(req[r].ev, "post") <= 1
        /\ Count(req[r].ev, "classify") <= 1
        /\ req[r].outcome \in {"quota", "invalid", "raised"} =>
               Count(req[r].ev, "post") = 0
        /\ Count(req[r].ev, "classify") = 0 => Count(req[r].ev, "post") = 0
        /\ ~hf_token => Count(req[r].ev, "post") = 0
        /\ (hf_token /\ Count(req[r].ev, "classify") = 1) =>
               Count(req[r].ev, "post") = 1

C24_Witness ==
    /\ hf_token
    /\ \E r \in Requests :
         /\ Done(r) /\ req[r].outcome = "ok"
         /\ req[r].fell_back /\ req[r].resp.ai_unavailable
         /\ req[r].ev = <<"post", "classify", "increment">>

(* C25: whatever deliveries the webhook handles about one payment, in any   *)
(* order (success, failure, other states), the payment upgrades the profile *)
(* (expiry extended by the plan's duration, counter reset) at most once.    *)
C25_UpgradedAtMostOnce ==
    side.upgrades <= 1

(* C26: once the payment's status is SUCCESS no delivery changes it, and a  *)
(* payment that has upgraded the profile has the status SUCCESS.            *)
C26_SuccessIsTerminal ==
    [][ /\ side.status = "SUCCESS" => side'.status = "SUCCESS"
        /\ side'.upgrades >= 1 => side'.status = "SUCCESS" ]_vars

(* C27: with requests run one after another and a ceiling of at least 1, a  *)
(* user who got the 402 response on some day has the first valid request of *)
(* any later day accepted: its quota check reads the counter 0, and when    *)
(* the request has ended (its database operations succeeding) the counter   *)
(* is 1 and the reset date is that later day.                               *)
C27_ExhaustionEndsWithTheDay ==
    \A r \in Requests :
        ( /\ req[r].alone /\ req[r].after_quota
          /\ req[r].checked /\ req[r].max_calls >= 1
          /\ ValidateText(req[r].text) = "ok"
          /\ hist.accepted <= 1 ) =>
            /\ req[r].has_quota
            /\ req[r].seen = 0
            /\ req[r].outcome \notin {"quota", "invalid", "raised"}
            /\ (Done(r) /\ ~req[r].faulted) =>
                   /\ req[r].outcome = "ok"
                   /\ profile.daily_ai_calls = 1
                   /\ profile.last_ai_calls_reset = req[r].prof.last_ai_calls_reset
                   /\ profile.last_ai_calls_reset > hist.quota_day
                   /\ profile.last_ai_calls_reset <= DayOf(now)

C27_Witness ==
    \E r \in Requests :
        /\ Done(r) /\ req[r].alone /\ req[r].after_quota
        /\ req[r].outcome = "ok"
        /\ hist.quota_day = 1
        /\ profile.daily_ai_calls = 1
        /\ profile.last_ai_calls_reset = DayOf(now)
        /\ DayOf(now) > hist.quota_day

(* C28: in every 402 response the reported max_calls is the configured      *)
(* ceiling of the plan the same response names: the free ceiling with plan  *)
(* FREE, the premium ceiling with plan PREMIUM.                             *)
C28_MaxCallsOfNamedPlan ==
    \A r \in Requests :
        (Done(r) /\ req[r].outcome = "quota") =>
            /\ req[r].resp.plan \in {"FREE", "PREMIUM"}
            /\ req[r].resp.plan = "FREE" =>
                   req[r].resp.max_calls = FREE_DAILY_AI_CALLS
            /\ req[r].resp.plan = "PREMIUM" =>
                   req[r].resp.max_calls = PREMIUM_DAILY_AI_CALLS

(* C29: every row of mood_logs has a mood that is one of the twelve values  *)
(* of MoodLog.MOOD_CHOICES.                                                 *)
C29_StoredMoodIsAChoice ==
    /\ Cardinality(MOOD_CHOICES) = 12
    /\ \A i \in 1..Len(mood_logs) : mood_logs[i].mood \in MOOD_CHOICES

(* C30: the remaining_ai_calls reported for a user is never negative, and   *)
(* it is 0 exactly when an analyze request of the user made at the same     *)
(* instant would get the 402 response.                                      *)
C30_RemainingZeroIffRejected ==
    (fn.op = "RemainingAiCalls" /\ fn.done) =>
        /\ fn.out >= 0
        /\ fn.out = 0 <=> ~CheckAiQuota(fn.arg.p, fn.arg.t).has_quota

====
